---- MODULE Spec2Model ----
(***************************************************************************)
(* StrongARM latch tile generators (ucieanalog/src/strongarm/mod.rs).      *)
(*                                                                         *)
(* Three generators are modelled, each as a straight-line build sequence   *)
(* executed one operation at a time:                                       *)
(*   "half" : StrongArmHalf::tile               (mod.rs 150-515)           *)
(*   "full" : StrongArm::tile                   (mod.rs 560-632)           *)
(*   "buf"  : StrongArmWithOutputBuffers::tile  (mod.rs 693-760)           *)
(* A tile owns a net table (nodes merged by connect), a set of placed      *)
(* instances, the list of drawn instances, its routing configuration and   *)
(* the geometry merged into its layout ports.                              *)
(***************************************************************************)
EXTENDS Integers, Sequences, FiniteSets, TLC

\* ------------------------------------------------------------------ bounds
\* Largest device width parameter tried (widths range over 1..MaxW).
MaxW == 2

\* ------------------------------------------------------- program constants
MosSdLen == 2
MosGLen == 1
TapWidth == 3
TopLayer == 2
BUFFER_SPACING == 1

Levels == {"half", "full", "buf"}
InputKinds == {"N", "P"}
\* Flavor handed in as nmos_kind and as pmos_kind (two different values, so that a
\* device's flavor tells which field it was taken from).
NmosKinds == {"Nom"}
PmosKinds == {"Lvt"}

VARIABLES
    params,     \* StrongArmParams (self.0), fixed for the whole build
    sel,        \* result of the polarity match of the half-latch
    pc,         \* per tile: index of the next operation of its build sequence
    status,     \* per tile: "idle" | "running" | "ok" | "err"
    net,        \* per tile: declared node -> representative of its net
    inst,       \* per tile: generated instance -> [blk, par, rect, orient]
    drawn,      \* per tile: instances drawn, in order
    cfg,        \* per tile: times top layer / router / via maker were set, the layer
    layout,     \* per tile: layout port -> geometry merged into it
    hooks,      \* per tile: times the post-layout hook ran
    rows,       \* half-latch: the row list being placed
    prev        \* half-latch: the placement cursor

vars == <<params, sel, pc, status, net, inst, drawn, cfg, layout, hooks, rows, prev>>

\* ------------------------------------------------------------------- nodes
\* A node is a triple <<owner, name, index>>.
Io(p) == <<"io", p, 0>>
Sg(n, i) == <<"sig", n, i>>
Tm(d, t, i) == <<d, t, i>>
\* Bindings of the polarity match, resolved when an operation executes.
InputRail == <<"let", "input_rail", 0>>
PrechargeRail == <<"let", "precharge_rail", 0>>

Resolve(n) ==
    IF n = InputRail THEN sel.input_rail
    ELSE IF n = PrechargeRail THEN sel.precharge_rail
    ELSE n

\* cell.signal: declares fresh nodes, each alone on its net.
Declare(f, ns) == [n \in (DOMAIN f) \cup ns |-> IF n \in DOMAIN f THEN f[n] ELSE n]

\* cell.connect(a, b): the nets of a and b become one net.
Connect(f, a, b) == [n \in DOMAIN f |-> IF f[n] = f[b] THEN f[a] ELSE f[n]]

RECURSIVE ConnectAll(_, _)
ConnectAll(f, pairs) ==
    IF pairs = <<>> THEN f
    ELSE ConnectAll(Connect(f, pairs[1][1], pairs[1][2]), Tail(pairs))

\* --------------------------------------------------------------- geometry
Rect(l, b, r, t) == [left |-> l, bot |-> b, right |-> r, top |-> t]
ZeroRect == Rect(0, 0, 0, 0)
Translate(s, dx, dy) ==
    Rect(s.left + dx, s.bot + dy, s.right + dx, s.top + dy)

\* i64 division by two, which truncates toward zero.
Half(a) == IF a >= 0 THEN a \div 2 ELSE 0 - ((0 - a) \div 2)

\* align_rect_mut(rect, mode, offset): move s against rect.
Align(s, rect, mode, offset) ==
    CASE mode = "Left" -> Translate(s, rect.left - s.left + offset, 0)
      [] mode = "Bottom" -> Translate(s, 0, rect.bot - s.bot + offset)
      [] mode = "ToTheRight" -> Translate(s, rect.right - s.left + offset, 0)
      [] mode = "ToTheLeft" -> Translate(s, rect.left - s.right + offset, 0)
      [] mode = "Beneath" -> Translate(s, 0, rect.bot - s.top + offset)
      [] mode = "CenterVertical" ->
            Translate(s, 0, Half((rect.bot + rect.top) - (s.bot + s.top)) + offset)

\* orient(ReflectHoriz): mirror about the vertical axis.
Reflect(s) == Rect(0 - s.right, s.bot, 0 - s.left, s.top)


\* ------------------------------------------- process capability adapter
\* MosTileParams::new(flavor, kind, w) for each of the five parameter records.
MosParams(name) ==
    CASE name = "half_tail_params" ->
            [mos_kind |-> sel.input_flavor, tile_kind |-> sel.input_kind,
             w |-> params.half_tail_w]
      [] name = "input_pair_params" ->
            [mos_kind |-> sel.input_flavor, tile_kind |-> sel.input_kind,
             w |-> params.input_pair_w]
      [] name = "inv_input_params" ->
            [mos_kind |-> sel.input_flavor, tile_kind |-> sel.input_kind,
             w |-> params.inv_input_w]
      [] name = "inv_precharge_params" ->
            [mos_kind |-> sel.precharge_flavor, tile_kind |-> sel.precharge_kind,
             w |-> params.inv_precharge_w]
      [] name = "precharge_params" ->
            [mos_kind |-> sel.precharge_flavor, tile_kind |-> sel.precharge_kind,
             w |-> params.precharge_w]
      [] name = "ptap" -> [mos_kind |-> "-", tile_kind |-> "P", w |-> TapWidth]
      [] name = "ntap" -> [mos_kind |-> "-", tile_kind |-> "N", w |-> TapWidth]
      [] OTHER -> [mos_kind |-> "-", tile_kind |-> "-", w |-> 0]

\* Extent of the primitive T::mos(p) on the placement grid.  The generator never
\* inspects it; it is taken to depend on the width parameter alone.
MosSize(p) == Rect(0, 0, p.w + 1, p.w)
\* Extent of the primitive T::tap(p).
TapSize(p) == Rect(0, 0, p.w, 1)
\* Extent of Inverter::<T>::new(self.1).
InverterSize == Rect(0, 0, 2, 1)

\* Terminals of a block, as <<name, index>> pairs.
MosTerms ==
    {<<"sd", i>> : i \in 0..(MosSdLen - 1)} \cup {<<"g", i>> : i \in 0..(MosGLen - 1)}
        \cup {<<"b", 0>>}
TopPorts == {"vdd", "vss", "clock", "input.p", "input.n", "output.p", "output.n"}
HalfTopPorts ==
    {"top_io.vdd", "top_io.vss", "top_io.clock", "top_io.input.p", "top_io.input.n",
     "top_io.output.p", "top_io.output.n"}
HalfPorts == HalfTopPorts \cup {"input_d.p", "input_d.n", "tail_d"}
BufferPorts == {"din", "dout", "vdd", "vss"}

Terms(blk) ==
    CASE blk = "mos" -> MosTerms
      [] blk = "tap" -> {<<"x", 0>>}
      [] blk = "half" -> {<<p, 0>> : p \in HalfPorts}
      [] blk = "full" -> {<<p, 0>> : p \in TopPorts}
      [] blk = "inv" -> {<<p, 0>> : p \in BufferPorts}

\* The declared io of each tile.
IoPorts(l) == IF l = "half" THEN HalfPorts ELSE TopPorts

\* --------------------------------------------------- build operations
SigArr(name, n) == [op |-> "signal", nodes |-> {Sg(name, i) : i \in 0..(n - 1)}]
SigOne(name) == [op |-> "signal", nodes |-> {Sg(name, 0)}]
SigDiff(p, n) == [op |-> "signal", nodes |-> {Sg(p, 0), Sg(n, 0)}]
Con(a, b) == [op |-> "connect", a |-> a, b |-> b]
Min(a, b) == IF a < b THEN a ELSE b

\* generate_connected(T::mos(par), MosTileIoSchematic { sd, g, b }): terminal i of
\* an array is attached to element i of the signal array handed in.
GenMos(d, par, sd, sdn, g, gn, b) ==
    [op |-> "generate_connected", inst |-> d, blk |-> "mos", par |-> par,
     conn |-> [i \in 1..Min(sdn, MosSdLen) |-> <<"sd", i - 1, Sg(sd, i - 1)>>]
              \o [i \in 1..Min(gn, MosGLen) |-> <<"g", i - 1, Sg(g, i - 1)>>]
              \o << <<"b", 0, b>> >>]
GenTap(d, par) ==
    [op |-> "generate_connected", inst |-> d, blk |-> "tap", par |-> par, conn |-> <<>>]
GenTile(d, blk, conn) ==
    [op |-> "generate_connected", inst |-> d, blk |-> blk, par |-> "-", conn |-> conn]
AlignOp(d, ref, mode, off) ==
    [op |-> "align", inst |-> d, ref |-> ref, mode |-> mode, off |-> off]
OrientOp(d) == [op |-> "orient", inst |-> d]
DrawOp(d) == [op |-> "draw", inst |-> d]
SetPrimaryOp(port, d, t, i) == [op |-> "set_primary", port |-> port, src |-> Tm(d, t, i)]
MergeOp(port, d, t, i) == [op |-> "merge", port |-> port, src |-> Tm(d, t, i)]
RowOp(i) == [op |-> "row", i |-> i]
Op(name) == [op |-> name]


\* ------------------------------------------ StrongArmHalf::tile, schematic
\* Shorthands for the io nodes the half-latch names (mod.rs 191-192 alias two).
Vdd == Io("top_io.vdd")
Vss == Io("top_io.vss")
Clock == Io("top_io.clock")
InputP == Io("top_io.input.p")
InputN == Io("top_io.input.n")
OutputP == Io("top_io.output.p")
OutputN == Io("top_io.output.n")
tail == Io("tail_d")
intn == Io("input_d.n")
intp == Sg("intp", 0)

HeadOps == << Op("match"), SigOne("intp") >>

TailDummyOps ==
    << SigArr("input_rail1", 2),
       SigArr("input_rail2", 1),
       GenMos("tail_dummy", "half_tail_params", "input_rail1", 2, "input_rail2", 1,
              InputRail),
       Con(Tm("tail_dummy", "sd", 0), InputRail),
       Con(Tm("tail_dummy", "sd", 1), InputRail),
       Con(Tm("tail_dummy", "g", 0), InputRail) >>

TailPairOps ==
    << SigArr("input_rail_tail1", 2),
       SigArr("io_stic", 1),
       GenMos("tail_pair[0]", "half_tail_params", "input_rail_tail1", 2, "io_stic", 1,
              InputRail),
       GenMos("tail_pair[1]", "half_tail_params", "input_rail_tail1", 2, "io_stic", 1,
              InputRail),
       Con(Tm("tail_pair[0]", "sd", 0), InputRail),
       Con(Tm("tail_pair[0]", "sd", 1), tail),
       Con(Tm("tail_pair[0]", "g", 0), Clock),
       Con(Tm("tail_pair[1]", "sd", 0), InputRail),
       Con(Tm("tail_pair[1]", "sd", 1), tail),
       Con(Tm("tail_pair[1]", "g", 0), Clock) >>

TapOps ==
    << GenTap("ptap", "ptap"),
       GenTap("ntap", "ntap"),
       Con(Tm("ptap", "x", 0), Vss),
       Con(Tm("ntap", "x", 0), Vdd) >>

InputPairOps ==
    << SigArr("tail_int", 2),
       SigArr("iosti", 1),
       GenMos("input_pair[0]", "input_pair_params", "tail_int", 2, "iosti", 1, InputRail),
       GenMos("input_pair[1]", "input_pair_params", "tail_int", 2, "iosti", 1, InputRail),
       Con(Tm("input_pair[0]", "sd", 0), tail),
       Con(Tm("input_pair[0]", "sd", 1), intn),
       Con(Tm("tail_pair[0]", "g", 0), InputP),
       Con(Tm("input_pair[1]", "sd", 0), tail),
       Con(Tm("input_pair[1]", "sd", 1), intp),
       Con(Tm("tail_pair[1]", "g", 0), InputN) >>

InputDummyOpsLeak ==
    << SigArr("input_rail3", 2),
       SigArr("input_rail4", 1),
       GenMos("input_dummy", "input_pair_params", "input_rail3", 2, "input_rail4", 1,
              InputRail),
       Con(Tm("input_dummy", "sd", 0), InputRail),
       Con(Tm("input_dummy", "sd", 1), InputRail),
       Con(Tm("input_dummy", "g", 0), InputP) >>
InputDummyOps ==
    << SigArr("input_rail3", 2),
       SigArr("input_rail4", 1),
       GenMos("input_dummy", "input_pair_params", "input_rail3", 2, "input_rail4", 1,
              InputRail),
       Con(Tm("input_dummy", "sd", 0), InputRail),
       Con(Tm("input_dummy", "sd", 1), InputRail),
       Con(Tm("tail_dummy", "g", 0), InputRail) >>

InvInputPairOps ==
    << SigArr("intniostio", 2),
       SigArr("iostiop", 1),
       SigArr("intpiostio", 2),
       SigArr("iostion", 1),
       GenMos("inv_input_pair[0]", "inv_input_params", "intniostio", 2, "iostiop", 1,
              InputRail),
       GenMos("inv_input_pair[1]", "inv_input_params", "intpiostio", 2, "iostion", 1,
              InputRail),
       Con(Tm("inv_input_pair[0]", "sd", 0), intn),
       Con(Tm("inv_input_pair[0]", "sd", 1), OutputN),
       Con(Tm("inv_input_pair[0]", "g", 0), OutputP),
       Con(Tm("inv_input_pair[1]", "sd", 0), intp),
       Con(Tm("inv_input_pair[1]", "sd", 1), OutputP),
       Con(Tm("inv_input_pair[1]", "g", 0), OutputN) >>

InvInputDummyOps ==
    << SigArr("input_rail5", 2),
       SigArr("input_rail6", 1),
       GenMos("inv_input_dummy", "inv_input_params", "input_rail5", 2, "input_rail6", 1,
              InputRail),
       Con(Tm("inv_input_dummy", "sd", 0), InputRail),
       Con(Tm("inv_input_dummy", "sd", 1), InputRail),
       Con(Tm("inv_input_dummy", "g", 0), InputRail) >>

InvPrechargePairOps ==
    << SigArr("precharge_rail_ios", 2),
       SigArr("iostio1", 1),
       GenMos("inv_precharge_pair[0]", "inv_precharge_params", "precharge_rail_ios", 2,
              "iostio1", 1, PrechargeRail),
       GenMos("inv_precharge_pair[1]", "inv_precharge_params", "precharge_rail_ios", 2,
              "iostio1", 1, PrechargeRail),
       Con(Tm("inv_precharge_pair[0]", "sd", 0), PrechargeRail),
       Con(Tm("inv_precharge_pair[0]", "sd", 1), OutputN),
       Con(Tm("inv_precharge_pair[0]", "g", 0), OutputP),
       Con(Tm("inv_precharge_pair[1]", "sd", 0), PrechargeRail),
       Con(Tm("inv_precharge_pair[1]", "sd", 1), OutputP),
       Con(Tm("inv_precharge_pair[1]", "g", 0), OutputN) >>

InvPrechargeDummyOps ==
    << SigArr("precharge_rail1", 2),
       SigArr("precharge_rail2", 1),
       GenMos("inv_precharge_dummy", "inv_precharge_params", "precharge_rail1", 2,
              "precharge_rail2", 1, PrechargeRail),
       Con(Tm("inv_precharge_dummy", "sd", 0), PrechargeRail),
       Con(Tm("inv_precharge_dummy", "sd", 1), PrechargeRail),
       Con(Tm("inv_precharge_dummy", "g", 0), PrechargeRail) >>

\* The second precharge_rail_ios (mod.rs 355) shadows the first and has one element.
PrechargePairAOps ==
    << SigArr("precharge_rail_ios_355", 1),
       SigArr("iost_ioc", 1),
       GenMos("precharge_pair_a[0]", "precharge_params", "precharge_rail_ios_355", 1,
              "iost_ioc", 1, PrechargeRail),
       GenMos("precharge_pair_a[1]", "precharge_params", "precharge_rail_ios_355", 1,
              "iost_ioc", 1, PrechargeRail),
       Con(Tm("inv_precharge_pair[0]", "sd", 0), PrechargeRail),
       Con(Tm("inv_precharge_pair[0]", "sd", 1), OutputN),
       Con(Tm("inv_precharge_pair[0]", "g", 0), Clock),
       Con(Tm("inv_precharge_pair[1]", "sd", 0), PrechargeRail),
       Con(Tm("inv_precharge_pair[1]", "sd", 1), OutputP),
       Con(Tm("inv_precharge_pair[1]", "g", 0), Clock) >>

PrechargePairADummyOps ==
    << SigArr("precharge_rail3", 2),
       SigArr("precharge_rail4", 1),
       GenMos("precharge_pair_a_dummy", "precharge_params", "precharge_rail3", 2,
              "precharge_rail4", 1, PrechargeRail),
       Con(Tm("precharge_pair_a_dummy", "sd", 0), PrechargeRail),
       Con(Tm("precharge_pair_a_dummy", "sd", 1), PrechargeRail),
       Con(Tm("precharge_pair_a_dummy", "g", 0), PrechargeRail) >>

PrechargePairBOps ==
    << SigArr("precharge_rail_int", 2),
       SigArr("iostic1", 1),
       GenMos("precharge_pair_b[0]", "precharge_params", "precharge_rail_int", 2,
              "iostic1", 1, PrechargeRail),
       GenMos("precharge_pair_b[1]", "precharge_params", "precharge_rail_int", 2,
              "iostic1", 1, PrechargeRail),
       Con(Tm("precharge_pair_b[0]", "sd", 0), PrechargeRail),
       Con(Tm("precharge_pair_b[0]", "sd", 1), intn),
       Con(Tm("precharge_pair_b[0]", "g", 0), Clock),
       Con(Tm("precharge_pair_b[1]", "sd", 0), PrechargeRail),
       Con(Tm("precharge_pair_b[1]", "sd", 1), intp),
       Con(Tm("precharge_pair_b[1]", "g", 0), Clock) >>

PrechargePairBDummyOps ==
    << SigArr("precharge_rail5", 2),
       SigArr("precharge_rail6", 1),
       GenMos("precharge_pair_b_dummy", "precharge_params", "precharge_rail5", 2,
              "precharge_rail6", 1, PrechargeRail),
       Con(Tm("precharge_pair_b_dummy", "sd", 0), PrechargeRail),
       Con(Tm("precharge_pair_b_dummy", "sd", 1), PrechargeRail),
       Con(Tm("precharge_pair_b_dummy", "g", 0), PrechargeRail) >>

HalfSchematicOps ==
    HeadOps \o TailDummyOps \o TailPairOps \o TapOps \o InputPairOps \o InputDummyOps
        \o InvInputPairOps \o InvInputDummyOps \o InvPrechargePairOps
        \o InvPrechargeDummyOps \o PrechargePairAOps \o PrechargePairADummyOps
        \o PrechargePairBOps \o PrechargePairBDummyOps


\* ------------------------------------------- StrongArmHalf::tile, placement
Row(d, p) == [dummy |-> d, pair |-> <<p \o "[0]", p \o "[1]">>]

RowListSwapped ==
    << Row("precharge_pair_a_dummy", "precharge_pair_a"),
       Row("precharge_pair_b_dummy", "precharge_pair_b"),
       Row("inv_input_dummy", "inv_input_pair"),
       Row("inv_precharge_dummy", "inv_precharge_pair"),
       Row("input_dummy", "input_pair"),
       Row("tail_dummy", "tail_pair") >>
\* The row list as written (mod.rs 431-438).
RowList ==
    << Row("precharge_pair_a_dummy", "precharge_pair_a"),
       Row("precharge_pair_b_dummy", "precharge_pair_b"),
       Row("inv_precharge_dummy", "inv_precharge_pair"),
       Row("inv_input_dummy", "inv_input_pair"),
       Row("input_dummy", "input_pair"),
       Row("tail_dummy", "tail_pair") >>
NumRows == 6

Reverse(s) == [i \in 1..Len(s) |-> s[Len(s) + 1 - i]]

\* rows.reverse() under InputKind::P (mod.rs 440-442).
OrderRowsNoReverse(r, kind) == r
OrderRows(r, kind) == IF kind = "P" THEN Reverse(r) ELSE r

\* One iteration of the placement loop (mod.rs 444-453): the rectangles of the
\* dummy and of the two devices of the pair, given the cursor and their extents.
PlaceRowStacked(cur, dummy, m0, m1) ==
    LET d == Align(Align(dummy, cur, "Left", 0), cur, "Beneath", 0)
        a == Align(Align(m0, d, "Bottom", 0), d, "ToTheRight", 0)
        b == Align(Align(m1, a, "Bottom", 0), d, "ToTheRight", 0)
    IN [dummy |-> d, m0 |-> a, m1 |-> b]
PlaceRow(cur, dummy, m0, m1) ==
    LET d == Align(Align(dummy, cur, "Left", 0), cur, "Beneath", 0)
        a == Align(Align(m0, d, "Bottom", 0), d, "ToTheRight", 0)
        b == Align(Align(m1, a, "Bottom", 0), a, "ToTheRight", 0)
    IN [dummy |-> d, m0 |-> a, m1 |-> b]

\* The whole placement loop as a fold over the row list: the rectangles of every
\* row, in placement order, from the first cursor and the extents of the devices.
RECURSIVE FoldRows(_, _, _)
FoldRows(cur, rws, ext) ==
    IF rws = <<>> THEN <<>>
    ELSE LET r == rws[1]
             pl == PlaceRow(cur, ext[r.dummy], ext[r.pair[1]], ext[r.pair[2]])
         IN << [name |-> r.dummy, d |-> pl.dummy, m0 |-> pl.m0, m1 |-> pl.m1] >>
                \o FoldRows(pl.dummy, Tail(rws), ext)

HalfPlacementOpsTapNotBeneath ==
    << Op("prev"), Op("rows"), Op("reverse") >>
        \o [i \in 1..NumRows |-> RowOp(i)]
        \o << AlignOp("ptap", "prev", "Left", 0), AlignOp("ptap", "prev", "Left", 0) >>
HalfPlacementOps ==
    << Op("prev"), Op("rows"), Op("reverse") >>
        \o [i \in 1..NumRows |-> RowOp(i)]
        \o << AlignOp("ptap", "prev", "Left", 0), AlignOp("ptap", "prev", "Beneath", 0) >>

HalfDrawOps ==
    << DrawOp("ptap"), DrawOp("ntap"),
       DrawOp("tail_pair[0]"), DrawOp("tail_pair[1]"), DrawOp("tail_dummy"),
       DrawOp("input_pair[0]"), DrawOp("input_pair[1]"), DrawOp("input_dummy"),
       DrawOp("inv_input_pair[0]"), DrawOp("inv_input_pair[1]"),
       DrawOp("inv_input_dummy"),
       DrawOp("inv_precharge_pair[0]"), DrawOp("inv_precharge_pair[1]"),
       DrawOp("inv_precharge_dummy"),
       DrawOp("precharge_pair_a[0]"), DrawOp("precharge_pair_a[1]"),
       DrawOp("precharge_pair_a_dummy"),
       DrawOp("precharge_pair_b[0]"), DrawOp("precharge_pair_b[1]"),
       DrawOp("precharge_pair_b_dummy") >>

ConfigOps == << Op("set_top_layer"), Op("set_router"), Op("set_via_maker") >>

HalfMergeOpsOutputsSwapped ==
    << SetPrimaryOp("top_io.vdd", "ntap", "x", 0),
       SetPrimaryOp("top_io.vss", "ptap", "x", 0),
       MergeOp("input_d.n", "input_pair[0]", "sd", 0),
       MergeOp("input_d.p", "input_pair[1]", "sd", 1),
       MergeOp("tail_d", "tail_pair[0]", "sd", 1),
       MergeOp("top_io.clock", "tail_pair[0]", "g", 0),
       MergeOp("top_io.input.p", "input_pair[0]", "g", 0),
       MergeOp("top_io.input.n", "input_pair[1]", "g", 0),
       MergeOp("top_io.output.p", "inv_input_pair[0]", "sd", 1),
       MergeOp("top_io.output.n", "inv_input_pair[1]", "sd", 1) >>
HalfMergeOps ==
    << SetPrimaryOp("top_io.vdd", "ntap", "x", 0),
       SetPrimaryOp("top_io.vss", "ptap", "x", 0),
       MergeOp("input_d.n", "input_pair[0]", "sd", 0),
       MergeOp("input_d.p", "input_pair[1]", "sd", 1),
       MergeOp("tail_d", "tail_pair[0]", "sd", 1),
       MergeOp("top_io.clock", "tail_pair[0]", "g", 0),
       MergeOp("top_io.input.p", "input_pair[0]", "g", 0),
       MergeOp("top_io.input.n", "input_pair[1]", "g", 0),
       MergeOp("top_io.output.p", "inv_input_pair[1]", "sd", 1),
       MergeOp("top_io.output.n", "inv_input_pair[0]", "sd", 1) >>

HalfProgram ==
    HalfSchematicOps \o HalfPlacementOps \o HalfDrawOps \o ConfigOps \o HalfMergeOps
        \o << Op("return") >>

\* ------------------------------------------------------- StrongArm::tile
\* StrongArmHalfIoSchematic { top_io: io.schematic.clone(), input_d, tail_d }.
HalfConnSwapped ==
    << <<"top_io.vdd", 0, Io("vdd")>>, <<"top_io.vss", 0, Io("vss")>>,
       <<"top_io.clock", 0, Io("clock")>>,
       <<"top_io.input.p", 0, Io("input.n")>>, <<"top_io.input.n", 0, Io("input.p")>>,
       <<"top_io.output.p", 0, Io("output.p")>>,
       <<"top_io.output.n", 0, Io("output.n")>>,
       <<"input_d.p", 0, Sg("input_d.p", 0)>>, <<"input_d.n", 0, Sg("input_d.n", 0)>>,
       <<"tail_d", 0, Sg("tail_d", 0)>> >>
HalfConn ==
    << <<"top_io.vdd", 0, Io("vdd")>>, <<"top_io.vss", 0, Io("vss")>>,
       <<"top_io.clock", 0, Io("clock")>>,
       <<"top_io.input.p", 0, Io("input.p")>>, <<"top_io.input.n", 0, Io("input.n")>>,
       <<"top_io.output.p", 0, Io("output.p")>>,
       <<"top_io.output.n", 0, Io("output.n")>>,
       <<"input_d.p", 0, Sg("input_d.p", 0)>>, <<"input_d.n", 0, Sg("input_d.n", 0)>>,
       <<"tail_d", 0, Sg("tail_d", 0)>> >>

FullGenerateOpsOwnNets ==
    << SigOne("tail_d"),
       SigDiff("input_d.p", "input_d.n"),
       GenTile("left_half", "half", HalfConn),
       SigOne("tail_d_r"),
       GenTile("right_half", "half",
               [HalfConn EXCEPT ![10] = <<"tail_d", 0, Sg("tail_d_r", 0)>>]),
       OrientOp("right_half"),
       AlignOp("right_half", "left_half", "ToTheRight", 0) >>
FullGenerateOps ==
    << SigOne("tail_d"),
       SigDiff("input_d.p", "input_d.n"),
       GenTile("left_half", "half", HalfConn),
       GenTile("right_half", "half", HalfConn),
       OrientOp("right_half"),
       AlignOp("right_half", "left_half", "ToTheRight", 0) >>

FullDrawOps == << DrawOp("left_half"), DrawOp("right_half") >>

FullMergeOps ==
    << MergeOp("vdd", "left_half", "top_io.vdd", 0),
       MergeOp("vdd", "right_half", "top_io.vdd", 0),
       MergeOp("vss", "left_half", "top_io.vss", 0),
       MergeOp("vss", "right_half", "top_io.vss", 0),
       MergeOp("clock", "left_half", "top_io.clock", 0),
       MergeOp("clock", "right_half", "top_io.clock", 0),
       MergeOp("input.p", "left_half", "top_io.input.p", 0),
       MergeOp("input.p", "right_half", "top_io.input.p", 0),
       MergeOp("input.n", "left_half", "top_io.input.n", 0),
       MergeOp("input.n", "right_half", "top_io.input.n", 0),
       MergeOp("output.p", "left_half", "top_io.output.p", 0),
       MergeOp("output.p", "right_half", "top_io.output.p", 0),
       MergeOp("output.n", "left_half", "top_io.output.n", 0),
       MergeOp("output.n", "right_half", "top_io.output.n", 0) >>

FullProgramHookBeforeMerges ==
    FullGenerateOps \o FullDrawOps \o ConfigOps \o << Op("post_layout_hooks") >>
        \o FullMergeOps \o << Op("return") >>
FullProgram ==
    FullGenerateOps \o FullDrawOps \o ConfigOps \o FullMergeOps
        \o << Op("post_layout_hooks"), Op("return") >>

\* --------------------------------------- StrongArmWithOutputBuffers::tile
StrongArmConn ==
    << <<"input.p", 0, Io("input.p")>>, <<"input.n", 0, Io("input.n")>>,
       <<"output.p", 0, Sg("out.p", 0)>>, <<"output.n", 0, Sg("out.n", 0)>>,
       <<"clock", 0, Io("clock")>>, <<"vdd", 0, Io("vdd")>>, <<"vss", 0, Io("vss")>> >>

BufferConn(din, dout) ==
    << <<"din", 0, din>>, <<"dout", 0, dout>>,
       <<"vdd", 0, Io("vdd")>>, <<"vss", 0, Io("vss")>> >>

BufGenerateOpsStraight ==
    << SigDiff("out.p", "out.n"),
       GenTile("strongarm", "full", StrongArmConn),
       GenTile("right_buf", "inv", BufferConn(Sg("out.n", 0), Io("output.n"))),
       AlignOp("right_buf", "strongarm", "CenterVertical", 0),
       AlignOp("right_buf", "strongarm", "ToTheRight", BUFFER_SPACING),
       GenTile("left_buf", "inv", BufferConn(Sg("out.p", 0), Io("output.p"))),
       OrientOp("left_buf"),
       AlignOp("left_buf", "strongarm", "CenterVertical", 0),
       AlignOp("left_buf", "strongarm", "ToTheLeft", 0 - BUFFER_SPACING) >>
BufGenerateOpsLeftInside ==
    << SigDiff("out.p", "out.n"),
       GenTile("strongarm", "full", StrongArmConn),
       GenTile("right_buf", "inv", BufferConn(Sg("out.p", 0), Io("output.n"))),
       AlignOp("right_buf", "strongarm", "CenterVertical", 0),
       AlignOp("right_buf", "strongarm", "ToTheRight", BUFFER_SPACING),
       GenTile("left_buf", "inv", BufferConn(Sg("out.n", 0), Io("output.p"))),
       OrientOp("left_buf"),
       AlignOp("left_buf", "strongarm", "CenterVertical", 0),
       AlignOp("left_buf", "strongarm", "ToTheLeft", BUFFER_SPACING) >>
BufGenerateOps ==
    << SigDiff("out.p", "out.n"),
       GenTile("strongarm", "full", StrongArmConn),
       GenTile("right_buf", "inv", BufferConn(Sg("out.p", 0), Io("output.n"))),
       AlignOp("right_buf", "strongarm", "CenterVertical", 0),
       AlignOp("right_buf", "strongarm", "ToTheRight", BUFFER_SPACING),
       GenTile("left_buf", "inv", BufferConn(Sg("out.n", 0), Io("output.p"))),
       OrientOp("left_buf"),
       AlignOp("left_buf", "strongarm", "CenterVertical", 0),
       AlignOp("left_buf", "strongarm", "ToTheLeft", 0 - BUFFER_SPACING) >>

BufDrawOps == << DrawOp("strongarm"), DrawOp("right_buf"), DrawOp("left_buf") >>

BufMergeOps ==
    << MergeOp("vdd", "strongarm", "vdd", 0),
       MergeOp("vss", "strongarm", "vss", 0),
       MergeOp("clock", "strongarm", "clock", 0),
       MergeOp("input.p", "strongarm", "input.p", 0),
       MergeOp("input.n", "strongarm", "input.n", 0),
       MergeOp("output.p", "left_buf", "dout", 0),
       MergeOp("output.n", "right_buf", "dout", 0) >>

BufProgram ==
    BufGenerateOps \o BufDrawOps \o ConfigOps \o BufMergeOps
        \o << Op("post_layout_hooks"), Op("return") >>

Program(l) ==
    CASE l = "half" -> HalfProgram
      [] l = "full" -> FullProgram
      [] l = "buf" -> BufProgram


\* ------------------------------------------------------------ state machine
NoNode == <<"-", "-", 0>>
NoSel ==
    [input_kind |-> "-", precharge_kind |-> "-", input_flavor |-> "-",
     precharge_flavor |-> "-", input_rail |-> NoNode, precharge_rail |-> NoNode]

\* The polarity match of the half-latch (mod.rs 158-182).
PolarityMatchFixed(p) ==
    [input_kind |-> "N", precharge_kind |-> "P", input_flavor |-> p.nmos_kind,
     precharge_flavor |-> p.pmos_kind, input_rail |-> Vss, precharge_rail |-> Vdd]
PolarityMatch(p) ==
    IF p.input_kind = "N"
    THEN [input_kind |-> "N", precharge_kind |-> "P", input_flavor |-> p.nmos_kind,
          precharge_flavor |-> p.pmos_kind, input_rail |-> Vss, precharge_rail |-> Vdd]
    ELSE [input_kind |-> "P", precharge_kind |-> "N", input_flavor |-> p.pmos_kind,
          precharge_flavor |-> p.nmos_kind, input_rail |-> Vdd, precharge_rail |-> Vss]

SetMin(S) == CHOOSE x \in S : \A y \in S : x <= y
SetMax(S) == CHOOSE x \in S : \A y \in S : x >= y
Bbox(R) ==
    IF R = {} THEN ZeroRect
    ELSE Rect(SetMin({r.left : r \in R}), SetMin({r.bot : r \in R}),
              SetMax({r.right : r \in R}), SetMax({r.top : r \in R}))

\* Bounds of a finished tile: the bounding box of what it drew.
TileBounds(l) ==
    IF status[l] = "ok"
    THEN Bbox({inst[l][drawn[l][i]].rect : i \in 1..Len(drawn[l])})
    ELSE ZeroRect

Extent(blk, par) ==
    CASE blk = "mos" -> MosSize(par)
      [] blk = "tap" -> TapSize(par)
      [] blk = "inv" -> InverterSize
      [] OTHER -> TileBounds(blk)

Cur(l) == Program(l)[pc[l]]
AtAfterError(l, name) ==
    /\ status[l] \in {"running", "err"}
    /\ pc[l] <= Len(Program(l))
    /\ Cur(l).op = name
At(l, name) ==
    /\ status[l] = "running"
    /\ pc[l] <= Len(Program(l))
    /\ Cur(l).op = name
Advance(l) == pc' = [pc EXCEPT ![l] = @ + 1]

NoGeo == <<"-", "-", 0>>

Init ==
    /\ params \in [nmos_kind : NmosKinds, pmos_kind : PmosKinds,
                   half_tail_w : 1..MaxW, input_pair_w : 1..MaxW,
                   inv_input_w : 1..MaxW, inv_precharge_w : 1..MaxW,
                   precharge_w : 1..MaxW, input_kind : InputKinds]
    /\ sel = NoSel
    /\ pc = [l \in Levels |-> 1]
    /\ status = [l \in Levels |-> IF l = "buf" THEN "running" ELSE "idle"]
    /\ net = [l \in Levels |-> [n \in {Io(p) : p \in IoPorts(l)} |-> n]]
    /\ inst = [l \in Levels |-> [d \in {} |-> 0]]
    /\ drawn = [l \in Levels |-> <<>>]
    /\ cfg = [l \in Levels |-> [top_layer |-> 0, layer |-> 0, router |-> 0, via_maker |-> 0]]
    /\ layout = [l \in Levels |->
                    [p \in IoPorts(l) |-> [primary |-> NoGeo, shapes |-> {}]]]
    /\ hooks = [l \in Levels |-> 0]
    /\ rows = <<>>
    /\ prev = ZeroRect

\* mod.rs 158-189
Match(l) ==
    /\ At(l, "match")
    /\ sel' = PolarityMatch(params)
    /\ Advance(l)
    /\ UNCHANGED <<params, status, net, inst, drawn, cfg, layout, hooks, rows, prev>>

\* cell.signal(..)
Signal(l) ==
    /\ At(l, "signal")
    /\ net' = [net EXCEPT ![l] = Declare(@, Cur(l).nodes)]
    /\ Advance(l)
    /\ UNCHANGED <<params, sel, status, inst, drawn, cfg, layout, hooks, rows, prev>>

\* generate_connected of a child tile that was not generated yet: its tile
\* function runs first.
StartChild(l) ==
    /\ At(l, "generate_connected")
    /\ Cur(l).blk \in Levels
    /\ status[Cur(l).blk] = "idle"
    /\ status' = [status EXCEPT ![Cur(l).blk] = "running"]
    /\ UNCHANGED <<params, sel, pc, net, inst, drawn, cfg, layout, hooks, rows, prev>>

\* cell.generate / cell.generate_connected
GenerateConnected(l) ==
    /\ At(l, "generate_connected")
    /\ Cur(l).blk \in Levels => status[Cur(l).blk] \in {"ok", "err"}
    /\ LET o == Cur(l)
           par == IF o.blk \in Levels THEN params ELSE MosParams(o.par)
           terms == {Tm(o.inst, t[1], t[2]) : t \in Terms(o.blk)}
           pairs == [i \in 1..Len(o.conn) |->
                        <<Tm(o.inst, o.conn[i][1], o.conn[i][2]), Resolve(o.conn[i][3])>>]
       IN /\ net' = [net EXCEPT ![l] = ConnectAll(Declare(@, terms), pairs)]
          /\ inst' = [inst EXCEPT ![l] =
                (o.inst :> [blk |-> o.blk, par |-> par, rect |-> Extent(o.blk, par),
                            orient |-> "R0"]) @@ @]
    /\ Advance(l)
    /\ UNCHANGED <<params, sel, status, drawn, cfg, layout, hooks, rows, prev>>

\* cell.connect(a, b)
ConnectOp(l) ==
    /\ At(l, "connect")
    /\ net' = [net EXCEPT ![l] = Connect(@, Resolve(Cur(l).a), Resolve(Cur(l).b))]
    /\ Advance(l)
    /\ UNCHANGED <<params, sel, status, inst, drawn, cfg, layout, hooks, rows, prev>>

\* mod.rs 429
SetPrev(l) ==
    /\ At(l, "prev")
    /\ prev' = inst[l]["ntap"].rect
    /\ Advance(l)
    /\ UNCHANGED <<params, sel, status, net, inst, drawn, cfg, layout, hooks, rows>>

\* mod.rs 431-438
MakeRows(l) ==
    /\ At(l, "rows")
    /\ rows' = RowList
    /\ Advance(l)
    /\ UNCHANGED <<params, sel, status, net, inst, drawn, cfg, layout, hooks, prev>>

\* mod.rs 440-442
ReverseRows(l) ==
    /\ At(l, "reverse")
    /\ rows' = OrderRows(rows, params.input_kind)
    /\ Advance(l)
    /\ UNCHANGED <<params, sel, status, net, inst, drawn, cfg, layout, hooks, prev>>

\* mod.rs 444-453, one iteration
PlaceRowStep(l) ==
    /\ At(l, "row")
    /\ LET r == rows[Cur(l).i]
           pl == PlaceRow(prev, inst[l][r.dummy].rect, inst[l][r.pair[1]].rect,
                          inst[l][r.pair[2]].rect)
       IN /\ inst' = [inst EXCEPT ![l][r.dummy].rect = pl.dummy,
                                  ![l][r.pair[1]].rect = pl.m0,
                                  ![l][r.pair[2]].rect = pl.m1]
          /\ prev' = pl.dummy
    /\ Advance(l)
    /\ UNCHANGED <<params, sel, status, net, drawn, cfg, layout, hooks, rows>>

RefRect(l, ref) == IF ref = "prev" THEN prev ELSE inst[l][ref].rect

\* align / align_rect_mut of one instance
AlignInst(l) ==
    /\ At(l, "align")
    /\ LET o == Cur(l)
       IN inst' = [inst EXCEPT ![l][o.inst].rect =
                      Align(@, RefRect(l, o.ref), o.mode, o.off)]
    /\ Advance(l)
    /\ UNCHANGED <<params, sel, status, net, drawn, cfg, layout, hooks, rows, prev>>

\* orient(Orientation::ReflectHoriz)
OrientInst(l) ==
    /\ At(l, "orient")
    /\ inst' = [inst EXCEPT ![l][Cur(l).inst].orient = "ReflectHoriz",
                            ![l][Cur(l).inst].rect = Reflect(@)]
    /\ Advance(l)
    /\ UNCHANGED <<params, sel, status, net, drawn, cfg, layout, hooks, rows, prev>>

\* cell.draw(inst)? succeeding
Draw(l) ==
    /\ At(l, "draw")
    /\ inst[l][Cur(l).inst].blk \in Levels => status[inst[l][Cur(l).inst].blk] = "ok"
    /\ drawn' = [drawn EXCEPT ![l] = Append(@, Cur(l).inst)]
    /\ Advance(l)
    /\ UNCHANGED <<params, sel, status, net, inst, cfg, layout, hooks, rows, prev>>

\* cell.draw(inst)? returning the error
DrawFail(l) ==
    /\ At(l, "draw")
    /\ status' = [status EXCEPT ![l] = "err"]
    /\ UNCHANGED <<params, sel, pc, net, inst, drawn, cfg, layout, hooks, rows, prev>>

SetTopLayer(l) ==
    /\ At(l, "set_top_layer")
    /\ cfg' = [cfg EXCEPT ![l].top_layer = @ + 1, ![l].layer = TopLayer]
    /\ Advance(l)
    /\ UNCHANGED <<params, sel, status, net, inst, drawn, layout, hooks, rows, prev>>

SetRouter(l) ==
    /\ At(l, "set_router")
    /\ cfg' = [cfg EXCEPT ![l].router = @ + 1]
    /\ Advance(l)
    /\ UNCHANGED <<params, sel, status, net, inst, drawn, layout, hooks, rows, prev>>

SetViaMaker(l) ==
    /\ At(l, "set_via_maker")
    /\ cfg' = [cfg EXCEPT ![l].via_maker = @ + 1]
    /\ Advance(l)
    /\ UNCHANGED <<params, sel, status, net, inst, drawn, layout, hooks, rows, prev>>

\* io.layout.<port>.set_primary(geometry)
SetPrimary(l) ==
    /\ At(l, "set_primary")
    /\ layout' = [layout EXCEPT ![l][Cur(l).port].primary = Cur(l).src]
    /\ Advance(l)
    /\ UNCHANGED <<params, sel, status, net, inst, drawn, cfg, hooks, rows, prev>>

\* io.layout.<port>.merge(geometry)
Merge(l) ==
    /\ At(l, "merge")
    /\ layout' = [layout EXCEPT ![l][Cur(l).port] =
            [primary |-> IF @.primary = NoGeo THEN Cur(l).src ELSE @.primary,
             shapes |-> @.shapes \cup {Cur(l).src}]]
    /\ Advance(l)
    /\ UNCHANGED <<params, sel, status, net, inst, drawn, cfg, hooks, rows, prev>>

\* T::post_layout_hooks(cell)? succeeding
PostLayoutHooks(l) ==
    /\ At(l, "post_layout_hooks")
    /\ hooks' = [hooks EXCEPT ![l] = @ + 1]
    /\ Advance(l)
    /\ UNCHANGED <<params, sel, status, net, inst, drawn, cfg, layout, rows, prev>>

\* T::post_layout_hooks(cell)? returning the error
HookFail(l) ==
    /\ At(l, "post_layout_hooks")
    /\ status' = [status EXCEPT ![l] = "err"]
    /\ hooks' = [hooks EXCEPT ![l] = @ + 1]
    /\ UNCHANGED <<params, sel, pc, net, inst, drawn, cfg, layout, rows, prev>>

\* Ok(((), ()))
Return(l) ==
    /\ At(l, "return")
    /\ status' = [status EXCEPT ![l] = "ok"]
    /\ Advance(l)
    /\ UNCHANGED <<params, sel, net, inst, drawn, cfg, layout, hooks, rows, prev>>

Next ==
    \E l \in Levels :
        \/ Match(l)
        \/ Signal(l)
        \/ StartChild(l)
        \/ GenerateConnected(l)
        \/ ConnectOp(l)
        \/ SetPrev(l)
        \/ MakeRows(l)
        \/ ReverseRows(l)
        \/ PlaceRowStep(l)
        \/ AlignInst(l)
        \/ OrientInst(l)
        \/ Draw(l)
        \/ DrawFail(l)
        \/ SetTopLayer(l)
        \/ SetRouter(l)
        \/ SetViaMaker(l)
        \/ SetPrimary(l)
        \/ Merge(l)
        \/ PostLayoutHooks(l)
        \/ HookFail(l)
        \/ Return(l)

Spec == Init /\ [][Next]_vars


\* ------------------------------------------------------------ vocabulary
Dummies ==
    {"tail_dummy", "input_dummy", "inv_input_dummy", "inv_precharge_dummy",
     "precharge_pair_a_dummy", "precharge_pair_b_dummy"}
InputRowDummies == {"tail_dummy", "input_dummy", "inv_input_dummy"}
InputRowDevices ==
    InputRowDummies \cup
        {"tail_pair[0]", "tail_pair[1]", "input_pair[0]", "input_pair[1]",
         "inv_input_pair[0]", "inv_input_pair[1]"}
PrechargeRowDevices ==
    {"inv_precharge_dummy", "precharge_pair_a_dummy", "precharge_pair_b_dummy",
     "inv_precharge_pair[0]", "inv_precharge_pair[1]",
     "precharge_pair_a[0]", "precharge_pair_a[1]",
     "precharge_pair_b[0]", "precharge_pair_b[1]"}
MosDevices == InputRowDevices \cup PrechargeRowDevices
MosTermNodes(D) == {Tm(d, t[1], t[2]) : d \in D, t \in MosTerms}
TapNodes == {Tm("ptap", "x", 0), Tm("ntap", "x", 0)}
FunctionalHalfPorts == HalfPorts \ {"top_io.vdd", "top_io.vss"}

\* Geometry a layout port has received.
Sources(l, p) == layout[l][p].shapes \cup ({layout[l][p].primary} \ {NoGeo})

\* Position in a tile's sequence of the operation generating instance d.
GenPc(l, d) ==
    CHOOSE j \in 1..Len(Program(l)) :
        Program(l)[j].op = "generate_connected" /\ Program(l)[j].inst = d
\* The half-latch has just executed the last of its schematic operations.
HalfWired == status["half"] = "running" /\ pc["half"] = Len(HalfSchematicOps) + 1
\* A tile function has just returned Ok: its parent has not moved on yet.
HalfReturned == status["half"] = "ok" /\ pc["full"] = GenPc("full", "left_half")
FullReturned == status["full"] = "ok" /\ pc["buf"] = GenPc("buf", "strongarm")
BufReturned == status["buf"] = "ok"
\* The rail of the input rows and of the precharge rows, by polarity alone.
InputRailOf(kind) == IF kind = "N" THEN Vss ELSE Vdd
PrechargeRailOf(kind) == IF kind = "N" THEN Vdd ELSE Vss

\* ------------------------------------------------------------------ C1
\* C1: every layout port of the half-latch takes its geometry from a device
\* terminal that the schematic puts on the net of that same port.
C1_LayoutMatchesSchematic ==
    HalfReturned =>
        LET f == net["half"]
        IN \A p \in HalfPorts : \A g \in Sources("half", p) : f[g] = f[Io(p)]

\* ------------------------------------------------------------------ C2
HalfInsts == {"left_half", "right_half"}
HalfPortOf(P) ==
    CASE P = "vdd" -> "top_io.vdd"
      [] P = "vss" -> "top_io.vss"
      [] P = "clock" -> "top_io.clock"
      [] P = "input.p" -> "top_io.input.p"
      [] P = "input.n" -> "top_io.input.n"
      [] P = "output.p" -> "top_io.output.p"
      [] P = "output.n" -> "top_io.output.n"

Buffers == {"left_buf", "right_buf"}

\* C3: in the buffered latch the buffer fed by out.p drives output.n, the buffer
\* fed by out.n drives output.p, each external output's layout port holds exactly
\* the dout geometry of the buffer the schematic puts on it, and neither internal
\* latch output is on an external output net.
C3_Crossover ==
    BufReturned =>
        LET f == net["buf"]
            outp == f[Sg("out.p", 0)]
            outn == f[Sg("out.n", 0)]
        IN /\ \A b \in Buffers :
                /\ f[Tm(b, "din", 0)] = outp => f[Tm(b, "dout", 0)] = f[Io("output.n")]
                /\ f[Tm(b, "din", 0)] = outn => f[Tm(b, "dout", 0)] = f[Io("output.p")]
           /\ \E b \in Buffers : f[Tm(b, "din", 0)] = outp
           /\ \E b \in Buffers : f[Tm(b, "din", 0)] = outn
           /\ f[Tm("strongarm", "output.p", 0)] = outp
           /\ f[Tm("strongarm", "output.n", 0)] = outn
           /\ \A P \in {"output.p", "output.n"} :
                /\ Sources("buf", P) =
                      {Tm(b, "dout", 0) : b \in
                          {x \in Buffers : f[Tm(x, "dout", 0)] = f[Io(P)]}}
                /\ Cardinality(Sources("buf", P)) = 1
                /\ f[Io(P)] \notin {outp, outn}
C3_Witness ==
    /\ BufReturned
    /\ Len(drawn["buf"]) = 3

\* ------------------------------------------------------------------ C4
\* C4: once the half-latch is wired, every terminal of every dummy is on the rail
\* of its row.
C4_DummiesOnRail ==
    HalfWired =>
        LET f == net["half"]
        IN \A d \in Dummies : \A t \in MosTerms :
              f[Tm(d, t[1], t[2])] =
                  f[IF d \in InputRowDummies THEN InputRailOf(params.input_kind)
                    ELSE PrechargeRailOf(params.input_kind)]

\* ------------------------------------------------------------------ C5
\* C5: once the half-latch is wired no terminal of a dummy is on the net of a
\* functional port, and when it returns no layout port holds geometry of a dummy.
C5_DummiesDoNotLeak ==
    /\ HalfWired =>
          LET f == net["half"]
              portNets == {f[Io(p)] : p \in FunctionalHalfPorts}
          IN \A n \in MosTermNodes(Dummies) : f[n] \notin portNets
    /\ HalfReturned =>
          \A p \in HalfPorts : \A g \in Sources("half", p) : g[1] \notin Dummies
C5_Witness ==
    /\ HalfReturned
    /\ Dummies \subseteq DOMAIN inst["half"]
    /\ \A p \in HalfPorts : Sources("half", p) # {}


\* ------------------------------------------------------------------ C6
ExposedPorts(l) == {p \in DOMAIN layout[l] : Sources(l, p) # {}}

\* C6: once the half-latch is wired, under polarity N the input-row devices are
\* N-kind with flavor nmos_kind and body on VSS (not VDD) and the precharge-row
\* devices are P-kind with flavor pmos_kind and body on VDD (not VSS); under
\* polarity P all of these are swapped; and a finished half or full latch exposes
\* the same port set whatever the polarity.
C6_FlavorAndRailByPolarity ==
    /\ HalfWired =>
          LET f == net["half"]
              i == inst["half"]
              n == params.input_kind = "N"
          IN /\ \A d \in InputRowDevices :
                  /\ i[d].par.tile_kind = (IF n THEN "N" ELSE "P")
                  /\ i[d].par.mos_kind = (IF n THEN params.nmos_kind ELSE params.pmos_kind)
                  /\ f[Tm(d, "b", 0)] = (IF n THEN f[Vss] ELSE f[Vdd])
                  /\ f[Tm(d, "b", 0)] # (IF n THEN f[Vdd] ELSE f[Vss])
             /\ \A d \in PrechargeRowDevices :
                  /\ i[d].par.tile_kind = (IF n THEN "P" ELSE "N")
                  /\ i[d].par.mos_kind = (IF n THEN params.pmos_kind ELSE params.nmos_kind)
                  /\ f[Tm(d, "b", 0)] = (IF n THEN f[Vdd] ELSE f[Vss])
                  /\ f[Tm(d, "b", 0)] # (IF n THEN f[Vss] ELSE f[Vdd])
    /\ HalfReturned => ExposedPorts("half") = HalfPorts
    /\ FullReturned => ExposedPorts("full") = TopPorts
C6_Witness ==
    /\ params.input_kind = "P"
    /\ FullReturned
    /\ inst["half"]["tail_pair[0]"].par.tile_kind = "P"
    /\ inst["half"]["precharge_pair_b[1]"].par.mos_kind = params.nmos_kind

\* ------------------------------------------------------------------ C7
\* Position in the half-latch sequence of the i-th iteration of the placement loop.
RowPc(i) == Len(HalfSchematicOps) + 3 + i
\* Position right after the last iteration.
PlacedPc == RowPc(NumRows) + 1

\* C7: while the placement loop runs, the cursor is the N-tap bounds before the
\* first row and the last placed dummy afterwards, and every row placed so far has
\* its dummy left-aligned with and directly beneath the cursor it met, its first
\* device bottom-aligned with the dummy at the dummy's right edge, and its second
\* device bottom-aligned with the first at the first's right edge.
C7_RowFold ==
    (status["half"] = "running" /\ pc["half"] \in RowPc(1)..PlacedPc) =>
        LET i == inst["half"]
            k == pc["half"] - RowPc(1)
            cursor(j) == IF j = 1 THEN i["ntap"].rect ELSE i[rows[j - 1].dummy].rect
        IN /\ prev = cursor(k + 1)
           /\ \A j \in 1..k :
                LET d == i[rows[j].dummy].rect
                    a == i[rows[j].pair[1]].rect
                    b == i[rows[j].pair[2]].rect
                IN /\ d.left = cursor(j).left
                   /\ d.top = cursor(j).bot
                   /\ a.bot = d.bot
                   /\ a.left = d.right
                   /\ b.bot = a.bot
                   /\ b.left = a.right
C7_Witness ==
    /\ status["half"] = "running"
    /\ pc["half"] = PlacedPc
    /\ prev = inst["half"][rows[NumRows].dummy].rect
    /\ inst["half"][rows[1].dummy].rect.top = inst["half"]["ntap"].rect.bot

\* ------------------------------------------------------------------ C8
OrderN ==
    << "precharge_pair_a_dummy", "precharge_pair_b_dummy", "inv_precharge_dummy",
       "inv_input_dummy", "input_dummy", "tail_dummy" >>
OrderP ==
    << "tail_dummy", "input_dummy", "inv_input_dummy", "inv_precharge_dummy",
       "precharge_pair_b_dummy", "precharge_pair_a_dummy" >>
OwnPair(d) ==
    CASE d = "precharge_pair_a_dummy" -> <<"precharge_pair_a[0]", "precharge_pair_a[1]">>
      [] d = "precharge_pair_b_dummy" -> <<"precharge_pair_b[0]", "precharge_pair_b[1]">>
      [] d = "inv_precharge_dummy" -> <<"inv_precharge_pair[0]", "inv_precharge_pair[1]">>
      [] d = "inv_input_dummy" -> <<"inv_input_pair[0]", "inv_input_pair[1]">>
      [] d = "input_dummy" -> <<"input_pair[0]", "input_pair[1]">>
      [] d = "tail_dummy" -> <<"tail_pair[0]", "tail_pair[1]">>

\* C8: once the row list is ordered it is precharge-A, precharge-B,
\* inverter-precharge, inverter-input, input-pair, tail under polarity N and the
\* exact reverse under polarity P, each row holding its own dummy and pair; and
\* once placed the rows lie top to bottom in that order, each pair level with its
\* own dummy.
C8_RowOrder ==
    LET want == IF params.input_kind = "N" THEN OrderN ELSE OrderP
        i == inst["half"]
    IN /\ (status["half"] = "running" /\ pc["half"] \in RowPc(1)..PlacedPc) =>
            /\ Len(rows) = NumRows
            /\ \A j \in 1..NumRows :
                  /\ rows[j].dummy = want[j]
                  /\ rows[j].pair = OwnPair(want[j])
       /\ (status["half"] = "running" /\ pc["half"] = PlacedPc) =>
            /\ \A j \in 1..(NumRows - 1) : i[want[j]].rect.bot >= i[want[j + 1]].rect.top
            /\ \A j \in 1..NumRows :
                  /\ i[OwnPair(want[j])[1]].rect.bot = i[want[j]].rect.bot
                  /\ i[OwnPair(want[j])[2]].rect.bot = i[want[j]].rect.bot
C8_Witness ==
    /\ status["half"] = "running"
    /\ pc["half"] = PlacedPc
    /\ params.input_kind = "P"
    /\ rows[1].dummy = "tail_dummy"
    /\ inst["half"]["tail_dummy"].rect.bot >= inst["half"]["input_dummy"].rect.top

\* ------------------------------------------------------------------ C9
Extent0(r) == Rect(0, 0, r.right - r.left, r.top - r.bot)
IndexOf(seq, name) == CHOOSE j \in 1..Len(seq) : seq[j].name = name

\* C9: with the extents of the placed devices, the placement loop run for
\* polarity N and for polarity P gives mirrored stacks: the row at position j under
\* N is at position 7 - j under P, its distance from the top of the stack under N
\* is its distance from the bottom of the stack under P, and its width is the same
\* under both; the placement the build made is the one of its own polarity.
C9_Mirror ==
    (status["half"] = "running" /\ pc["half"] = PlacedPc) =>
        LET i == inst["half"]
            ext == [d \in MosDevices |-> Extent0(i[d].rect)]
            cur0 == i["ntap"].rect
            pn == FoldRows(cur0, OrderRows(RowList, "N"), ext)
            pp == FoldRows(cur0, OrderRows(RowList, "P"), ext)
            here == IF params.input_kind = "N" THEN pn ELSE pp
        IN /\ \A j \in 1..NumRows :
                /\ i[here[j].name].rect = here[j].d
                /\ i[OwnPair(here[j].name)[1]].rect = here[j].m0
                /\ i[OwnPair(here[j].name)[2]].rect = here[j].m1
           /\ \A j \in 1..NumRows :
                LET rn == pn[j]
                    m == IndexOf(pp, rn.name)
                    rp == pp[m]
                IN /\ m = NumRows + 1 - j
                   /\ pn[1].d.top - rn.d.top = rp.d.bot - pp[NumRows].d.bot
                   /\ rn.m1.right - rn.d.left = rp.m1.right - rp.d.left
                   /\ rn.d.top - rn.d.bot = rp.d.top - rp.d.bot
C9_Witness ==
    /\ status["half"] = "running"
    /\ pc["half"] = PlacedPc
    /\ params.half_tail_w # params.precharge_w
    /\ params.inv_input_w # params.inv_precharge_w
    /\ inst["half"]["tail_dummy"].rect.top # inst["half"]["precharge_pair_a_dummy"].rect.top

\* ------------------------------------------------------------------ C10
\* C10: once the full latch has generated and placed its children, they are
\* exactly two half-latch tiles built from the latch's own parameters, every port
\* of the left half is on the same net as that port of the right half (the seven
\* top-level nets, tail_d, input_d.p and input_d.n, ten different nets), the right
\* half alone is reflected horizontally and its left edge is at the left half's
\* right edge.
C10_HalvesShareNets ==
    (status["full"] = "running" /\ pc["full"] = Len(FullGenerateOps) + 1) =>
        LET f == net["full"]
            i == inst["full"]
        IN /\ DOMAIN i = HalfInsts
           /\ \A h \in HalfInsts : i[h].blk = "half" /\ i[h].par = params
           /\ \A q \in HalfPorts : f[Tm("left_half", q, 0)] = f[Tm("right_half", q, 0)]
           /\ \A P \in TopPorts : f[Tm("left_half", HalfPortOf(P), 0)] = f[Io(P)]
           /\ f[Tm("left_half", "tail_d", 0)] = f[Sg("tail_d", 0)]
           /\ f[Tm("left_half", "input_d.p", 0)] = f[Sg("input_d.p", 0)]
           /\ f[Tm("left_half", "input_d.n", 0)] = f[Sg("input_d.n", 0)]
           /\ Cardinality({f[Tm("left_half", q, 0)] : q \in HalfPorts}) = 10
           /\ i["left_half"].orient = "R0"
           /\ i["right_half"].orient = "ReflectHoriz"
           /\ i["right_half"].rect.left = i["left_half"].rect.right
C10_Witness ==
    /\ status["full"] = "running"
    /\ pc["full"] = Len(FullGenerateOps) + 1
    /\ status["half"] = "ok"
    /\ inst["full"]["right_half"].rect.left > inst["full"]["left_half"].rect.left
    /\ inst["full"]["right_half"].rect.right > inst["full"]["right_half"].rect.left

\* ------------------------------------------------------------------ C11
\* Terminals of the instances a tile generated.
InstTerms(l) ==
    UNION {{Tm(d, t[1], t[2]) : t \in Terms(inst[l][d].blk)} : d \in DOMAIN inst[l]}
\* Schematic port p of tile l is on the net of a terminal of one of its instances.
PortBound(l, p) == \E n \in InstTerms(l) : net[l][n] = net[l][Io(p)]

\* C11: when a tile function returns Ok, at each of the three levels every
\* declared schematic port is on the net of a device terminal or child-tile port
\* and every declared layout port has received geometry; and every terminal of a
\* drawn instance is on a net declared in the tile.
C11_PortsBound ==
    /\ HalfReturned =>
          \A p \in HalfPorts : PortBound("half", p) /\ Sources("half", p) # {}
    /\ FullReturned =>
          \A p \in TopPorts : PortBound("full", p) /\ Sources("full", p) # {}
    /\ BufReturned =>
          \A p \in TopPorts : PortBound("buf", p) /\ Sources("buf", p) # {}
    /\ \A l \in Levels : \A k \in 1..Len(drawn[l]) :
          /\ drawn[l][k] \in DOMAIN inst[l]
          /\ \A t \in Terms(inst[l][drawn[l][k]].blk) :
                LET n == Tm(drawn[l][k], t[1], t[2])
                IN n \in DOMAIN net[l] /\ net[l][n] \in DOMAIN net[l]

\* ------------------------------------------------------------------ C12
\* C12: once the rows are placed the half-latch holds exactly eighteen MOS
\* devices: six rows of two different functional devices each and six different
\* dummies, one per row; and when it returns, the layout ports output.p and
\* output.n hold exactly the sd[1] geometry of inv_input_pair[1] and of
\* inv_input_pair[0], terminals the schematic has on output.p and on output.n.
C12_SixRowsAndOutputs ==
    /\ (status["half"] = "running" /\ pc["half"] = PlacedPc) =>
          LET i == inst["half"]
              mos == {d \in DOMAIN i : i[d].blk = "mos"}
              dum == {rows[j].dummy : j \in 1..Len(rows)}
              fun == UNION {{rows[j].pair[1], rows[j].pair[2]} : j \in 1..Len(rows)}
          IN /\ Len(rows) = 6
             /\ Cardinality(dum) = 6
             /\ Cardinality(fun) = 12
             /\ dum = Dummies
             /\ dum \cap fun = {}
             /\ mos = dum \cup fun
             /\ \A j \in 1..Len(rows) : rows[j].pair = OwnPair(rows[j].dummy)
    /\ HalfReturned =>
          LET f == net["half"]
          IN /\ Sources("half", "top_io.output.p") = {Tm("inv_input_pair[1]", "sd", 1)}
             /\ Sources("half", "top_io.output.n") = {Tm("inv_input_pair[0]", "sd", 1)}
             /\ f[Tm("inv_input_pair[1]", "sd", 1)] = f[OutputP]
             /\ f[Tm("inv_input_pair[0]", "sd", 1)] = f[OutputN]
             /\ {d \in Dummies \cup MosDevices : \E k \in 1..Len(drawn["half"]) :
                    drawn["half"][k] = d} = MosDevices
C12_Witness ==
    /\ HalfReturned
    /\ params.input_kind = "N"
    /\ params.half_tail_w = 2 /\ params.input_pair_w = 2 /\ params.inv_input_w = 2
    /\ params.inv_precharge_w = 2 /\ params.precharge_w = 2
    /\ Len(rows) = 6
    /\ Sources("half", "top_io.output.p") # {}

\* ------------------------------------------------------------------ C13
\* The tile whose build generates tile l.
Parent(l) == IF l = "half" THEN "full" ELSE "buf"

\* C13: a tile function returns an error only from a draw or from the post-layout
\* hook (full and buffered latch), at the very operation that failed; once it has,
\* nothing of that build changes any more (no draw, no configuration, no merge,
\* no hook, no return of Ok); and a tile one of whose children failed never
\* returns Ok.
C13_FailFast ==
    [][\A l \in Levels :
          /\ (status[l] # "err" /\ status'[l] = "err") =>
                /\ status[l] = "running"
                /\ Cur(l).op \in (IF l = "half" THEN {"draw"}
                                  ELSE {"draw", "post_layout_hooks"})
                /\ pc'[l] = pc[l]
                /\ drawn'[l] = drawn[l]
                /\ cfg'[l] = cfg[l]
                /\ layout'[l] = layout[l]
          /\ status[l] = "err" =>
                /\ status'[l] = "err"
                /\ pc'[l] = pc[l]
                /\ drawn'[l] = drawn[l]
                /\ cfg'[l] = cfg[l]
                /\ layout'[l] = layout[l]
                /\ hooks'[l] = hooks[l]
                /\ net'[l] = net[l]
                /\ inst'[l] = inst[l]
          /\ (l # "buf" /\ status'[l] = "err") => status'[Parent(l)] # "ok"
      ]_vars
C13_Witness ==
    /\ status["half"] = "err"
    /\ status["full"] = "err"
    /\ status["buf"] = "err"
    /\ Len(drawn["half"]) > 0
    /\ cfg["half"].top_layer = 0

\* ------------------------------------------------------------------ C14
\* C14: once the buffered latch has generated and placed its children, the right
\* buffer's left edge is BUFFER_SPACING past the latch's right edge, the left
\* buffer's right edge is BUFFER_SPACING before the latch's left edge, each
\* buffer's vertical centre is the latch's (to within the half grid unit that the
\* integer division drops), the buffers keep their size, and the left buffer alone
\* is reflected horizontally.
C14_BuffersFlank ==
    (status["buf"] = "running" /\ pc["buf"] = Len(BufGenerateOps) + 1) =>
        LET i == inst["buf"]
            sa == i["strongarm"].rect
            rb == i["right_buf"].rect
            lb == i["left_buf"].rect
            off(b) == (b.bot + b.top) - (sa.bot + sa.top)
        IN /\ rb.left = sa.right + BUFFER_SPACING
           /\ lb.right = sa.left - BUFFER_SPACING
           /\ off(rb) \in {-1, 0, 1}
           /\ off(lb) \in {-1, 0, 1}
           /\ off(rb) = off(lb)
           /\ Extent0(rb) = Extent0(InverterSize)
           /\ Extent0(lb) = Extent0(InverterSize)
           /\ i["right_buf"].orient = "R0"
           /\ i["left_buf"].orient = "ReflectHoriz"
           /\ i["strongarm"].orient = "R0"
           /\ BUFFER_SPACING >= 0 => (rb.left >= sa.right /\ lb.right <= sa.left)
C14_Witness ==
    /\ status["buf"] = "running"
    /\ pc["buf"] = Len(BufGenerateOps) + 1
    /\ status["full"] = "ok"
    /\ inst["buf"]["strongarm"].rect.right > inst["buf"]["strongarm"].rect.left
    /\ inst["buf"]["strongarm"].rect.top - inst["buf"]["strongarm"].rect.bot > 6
    /\ inst["buf"]["left_buf"].rect.right < inst["buf"]["right_buf"].rect.left

\* ------------------------------------------------------------------ C15
\* The ten signals of the half-latch that must stay apart.
HalfSignals == {Vdd, Vss, Clock, InputP, InputN, OutputP, OutputN, tail, intn, intp}

\* C15: once the half-latch is wired, the nets of input.p, input.n, output.p,
\* output.n, clock, vdd, vss, tail_d, input_d.n and intp are pairwise different,
\* both tail gates are on the clock net, and the two input-pair drains are on
\* different nets, intn and intp.
C15_NoShorts ==
    HalfWired =>
        LET f == net["half"]
        IN /\ \A a \in HalfSignals : \A b \in HalfSignals : f[a] = f[b] => a = b
           /\ f[Tm("tail_pair[0]", "g", 0)] = f[Clock]
           /\ f[Tm("tail_pair[1]", "g", 0)] = f[Clock]
           /\ f[Tm("input_pair[0]", "sd", 1)] = f[intn]
           /\ f[Tm("input_pair[1]", "sd", 1)] = f[intp]
           /\ f[Tm("input_pair[0]", "sd", 1)] # f[Tm("input_pair[1]", "sd", 1)]

\* ------------------------------------------------------------------ C16
PrechargeDevices ==
    {"precharge_pair_a[0]", "precharge_pair_a[1]",
     "precharge_pair_b[0]", "precharge_pair_b[1]"}
\* The nodes the latch regenerates on.
LatchNodes == {OutputP, OutputN, intn, intp}

\* C16: once the half-latch is wired, each of the four precharge devices has its
\* gate on the clock net, one source/drain terminal on the precharge rail and the
\* other on a latch node; output.p and output.n each carry a source/drain
\* terminal of a precharge device; and every terminal of a precharge device is on
\* a net that holds something besides terminals of its own pair.
C16_PrechargeWired ==
    HalfWired =>
        LET f == net["half"]
            rail == f[PrechargeRailOf(params.input_kind)]
            latch == {f[n] : n \in LatchNodes}
            sds(d) == {f[Tm(d, "sd", 0)], f[Tm(d, "sd", 1)]}
            pairOf(d) == {e \in PrechargeDevices : \E r \in 1..Len(RowList) :
                            {d, e} \subseteq {RowList[r].pair[1], RowList[r].pair[2]}}
        IN /\ \A d \in PrechargeDevices :
                /\ f[Tm(d, "g", 0)] = f[Clock]
                /\ rail \in sds(d)
                /\ sds(d) \cap latch # {}
                /\ \A t \in {<<"sd", 0>>, <<"sd", 1>>, <<"g", 0>>} :
                      \E n \in DOMAIN f :
                          /\ f[n] = f[Tm(d, t[1], t[2])]
                          /\ n[1] \notin pairOf(d) \cup {"sig"}
           /\ \A o \in {OutputP, OutputN} : \E d \in PrechargeDevices : f[o] \in sds(d)

\* ------------------------------------------------------------------ C17
\* Every instance the tile generated has been drawn, once.
AllDrawn(l) ==
    /\ {drawn[l][k] : k \in 1..Len(drawn[l])} = DOMAIN inst[l]
    /\ Len(drawn[l]) = Cardinality(DOMAIN inst[l])
    /\ DOMAIN inst[l] # {}
CfgNone(l) == cfg[l].top_layer = 0 /\ cfg[l].router = 0 /\ cfg[l].via_maker = 0
CfgOnce(l) == cfg[l].top_layer = 1 /\ cfg[l].router = 1 /\ cfg[l].via_maker = 1
NoMerges(l) == \A p \in IoPorts(l) : Sources(l, p) = {}
\* Every set_primary and merge of the tile's sequence has happened.
MergesDone(l) ==
    \A j \in 1..Len(Program(l)) :
        Program(l)[j].op \in {"set_primary", "merge"} =>
            Program(l)[j].src \in Sources(l, Program(l)[j].port)

\* C17: at each level a draw happens only before any configuration, merge or
\* hook; the top layer, router and via maker are set only once all instances are
\* drawn and before any merge, each at most once; a port merge happens only after
\* all three are set and before the hook; the hook runs only in the full and
\* buffered latch, only after the last merge, at most once; and a tile returns Ok
\* only with all instances drawn, each setting made exactly once, all merges done
\* and the hook run exactly once (never, for the half-latch).
C17_PhaseOrder ==
    [][\A l \in Levels :
          /\ drawn'[l] # drawn[l] => CfgNone(l) /\ NoMerges(l) /\ hooks[l] = 0
          /\ cfg'[l] # cfg[l] =>
                /\ AllDrawn(l) /\ NoMerges(l) /\ hooks[l] = 0
                /\ cfg'[l].top_layer <= 1 /\ cfg'[l].router <= 1 /\ cfg'[l].via_maker <= 1
          /\ layout'[l] # layout[l] => AllDrawn(l) /\ CfgOnce(l) /\ hooks[l] = 0
          /\ hooks'[l] # hooks[l] =>
                /\ l # "half"
                /\ status[l] = "running"
                /\ AllDrawn(l) /\ CfgOnce(l) /\ MergesDone(l)
                /\ hooks[l] = 0
          /\ (status[l] # "ok" /\ status'[l] = "ok") =>
                /\ AllDrawn(l) /\ CfgOnce(l) /\ MergesDone(l)
                /\ hooks[l] = (IF l = "half" THEN 0 ELSE 1)
                /\ drawn'[l] = drawn[l] /\ cfg'[l] = cfg[l]
                /\ layout'[l] = layout[l] /\ hooks'[l] = hooks[l]
      ]_vars
C17_Witness ==
    /\ BufReturned
    /\ \A l \in Levels : status[l] = "ok" /\ CfgOnce(l) /\ MergesDone(l) /\ AllDrawn(l)
    /\ hooks = [l \in Levels |-> IF l = "half" THEN 0 ELSE 1]

\* ------------------------------------------------------------------ C18
\* Two rectangles share interior points.
Overlap(a, b) ==
    a.left < b.right /\ b.left < a.right /\ a.bot < b.top /\ b.bot < a.top
\* Position in the half-latch sequence right after the P tap is placed.
TapPlacedPc == Len(HalfSchematicOps) + Len(HalfPlacementOps) + 1
RowDevices(r) == {r.dummy, r.pair[1], r.pair[2]}

\* C18: once the rows and the P tap are placed, the dummy and the two devices of
\* each row having equal size, no two of the twenty instances (eighteen devices
\* and the two taps) overlap, each has a positive area, the devices of a row span
\* the same vertical range, and top to bottom lie the N tap, the six rows in list
\* order and the P tap, all starting at the same left edge.
C18_NoOverlap ==
    (status["half"] = "running" /\ pc["half"] = TapPlacedPc) =>
        LET i == inst["half"]
            placed == MosDevices \cup {"ntap", "ptap"}
            equal == \A j \in 1..Len(rows) : \A d \in RowDevices(rows[j]) :
                        Extent0(i[d].rect) = Extent0(i[rows[j].dummy].rect)
        IN equal =>
            /\ Cardinality(placed) = 20
            /\ placed = DOMAIN i
            /\ \A a \in placed : i[a].rect.left < i[a].rect.right
                                  /\ i[a].rect.bot < i[a].rect.top
            /\ \A a \in placed : \A b \in placed :
                    a # b => ~Overlap(i[a].rect, i[b].rect)
            /\ \A j \in 1..NumRows : \A d \in RowDevices(rows[j]) :
                    /\ i[d].rect.bot = i[rows[j].dummy].rect.bot
                    /\ i[d].rect.top = i[rows[j].dummy].rect.top
            /\ i["ntap"].rect.bot >= i[rows[1].dummy].rect.top
            /\ \A j \in 1..(NumRows - 1) :
                    i[rows[j].dummy].rect.bot >= i[rows[j + 1].dummy].rect.top
            /\ i[rows[NumRows].dummy].rect.bot >= i["ptap"].rect.top
            /\ \A j \in 1..NumRows : i[rows[j].dummy].rect.left = i["ntap"].rect.left
            /\ i["ptap"].rect.left = i["ntap"].rect.left
C18_Witness ==
    /\ status["half"] = "running"
    /\ pc["half"] = TapPlacedPc
    /\ params.input_kind = "P"
    /\ params.half_tail_w # params.precharge_w
    /\ \A j \in 1..Len(rows) : \A d \in RowDevices(rows[j]) :
          Extent0(inst["half"][d].rect) = Extent0(inst["half"][rows[j].dummy].rect)
    /\ inst["half"]["ptap"].rect.top < inst["half"]["tail_dummy"].rect.bot

====
